---- MODULE Spec2Model ----
(***************************************************************************)
(* Model of src/app.py: the admin CRUD handlers over the document          *)
(* collections, the ad promotion linking, the ad tracking endpoints and    *)
(* the form processing (sanitising, defaults, boolean flags, image).       *)
(*                                                                         *)
(* Strings are sequences of one-character strings, so that replace, strip, *)
(* split and slicing are computed as Python computes them.  A stored value *)
(* is a tagged record [t, v] (str, bool, int, oid, list, null, date); a    *)
(* document is a function from field names to such values.  ObjectIds are  *)
(* the naturals 1..MaxIds handed out in order; 0 stands for a string that  *)
(* is not a well-formed ObjectId.  Timestamps are kept abstract.           *)
(***************************************************************************)
EXTENDS Integers, Sequences, FiniteSets, TLC

VARIABLES db, ad_clicks, users, session, cache, nextId, last, pc,
          resp, now, memo, args

\* what the read-only routes and the helper functions work on: the response of
\* the last read, the clock, the lru_cache of time_ago, the arguments of a call
aux == <<resp, now, memo, args>>

vars == <<db, ad_clicks, users, session, cache, nextId, last, pc, resp, now, memo, args>>

---------------------------------------------------------------------------
(* Bounds of the model *)

MaxIds == 2
MaxTrack == 2

---------------------------------------------------------------------------
(* Values *)

StrV(s) == [t |-> "str", v |-> s]
BoolV(b) == [t |-> "bool", v |-> b]
IntV(n) == [t |-> "int", v |-> n]
OidV(n) == [t |-> "oid", v |-> n]
ListV(l) == [t |-> "list", v |-> l]
Null == [t |-> "null", v |-> 0]
Date == [t |-> "date", v |-> 0]

IsStr(x) == x.t = "str"

\* str(ObjectId)
OidStr(x) == StrV(<<ToString(x.v)>>)

\* Python truthiness, as used by "a or b"
Truthy(x) ==
    CASE x.t = "str" -> x.v # <<>>
      [] x.t = "list" -> x.v # <<>>
      [] x.t = "bool" -> x.v
      [] x.t = "int" -> x.v # 0
      [] x.t = "null" -> FALSE
      [] OTHER -> TRUE

\* x == 'on' for a value of any type
IsOn(x) == IsStr(x) /\ x.v = <<"o", "n">>

ON == <<"o", "n">>
NA == <<"N", "/", "A">>
LT == <<"&", "l", "t", ";">>
GT == <<"&", "g", "t", ";">>
HASH == <<"#">>
URL == <<"u">>
AdminId == <<"a", "d", "m", "i", "n">>

---------------------------------------------------------------------------
(* String functions of Python *)

\* text.replace(ch, rep), computed on the two halves of the text
RECURSIVE Replace(_, _, _)
Replace(text, ch, rep) ==
    IF text = <<>> THEN <<>>
    ELSE IF Len(text) = 1 THEN (IF text[1] = ch THEN rep ELSE text)
    ELSE LET half == Len(text) \div 2
         IN  Replace(SubSeq(text, 1, half), ch, rep)
             \o Replace(SubSeq(text, half + 1, Len(text)), ch, rep)

IsSpace(c) == c = " "

NonSpace(s) == {i \in 1..Len(s) : ~IsSpace(s[i])}
LStrip(s) ==
    IF NonSpace(s) = {} THEN <<>>
    ELSE SubSeq(s, CHOOSE i \in NonSpace(s) : \A j \in NonSpace(s) : i <= j, Len(s))

RStrip(s) ==
    IF NonSpace(s) = {} THEN <<>>
    ELSE SubSeq(s, 1, CHOOSE i \in NonSpace(s) : \A j \in NonSpace(s) : j <= i)

Strip(s) == RStrip(LStrip(s))

\* s[:n]
Slice(s, n) == IF Len(s) <= n THEN s ELSE SubSeq(s, 1, n)

\* s.split(','): the pieces between the commas, empty pieces included
RECURSIVE SplitFrom(_, _)
SplitFrom(s, cur) ==
    IF s = <<>> THEN <<cur>>
    ELSE IF Head(s) = "," THEN <<cur>> \o SplitFrom(Tail(s), <<>>)
    ELSE SplitFrom(Tail(s), Append(cur, Head(s)))

Split(s) == SplitFrom(s, <<>>)

\* faulty variant: only the opening bracket is escaped
sanitize_input_LtOnly(text) ==
    IF text = <<>> THEN text
    ELSE Replace(text, "<", LT)

sanitize_input(text) ==
    IF text = <<>> THEN text
    ELSE Replace(Replace(text, "<", LT), ">", GT)

set_default_value(value) ==
    IF value.t = "null" \/ (IsStr(value) /\ Strip(value.v) = <<>>) THEN StrV(NA)
    ELSE value

\* [r.strip() for r in s.split(',') if r.strip()]
RECURSIVE StripNonBlank(_)
StripNonBlank(parts) ==
    IF parts = <<>> THEN <<>>
    ELSE (IF Strip(Head(parts)) # <<>> THEN <<Strip(Head(parts))>> ELSE <<>>)
         \o StripNonBlank(Tail(parts))

SplitRequirements(s) == StripNonBlank(Split(s))

---------------------------------------------------------------------------
(* Python dicts that keep insertion order: sequences of <<key, value>> *)

RECURSIVE DKeys(_)
DKeys(d) == IF d = <<>> THEN <<>> ELSE <<Head(d)[1]>> \o DKeys(Tail(d))
DHas(d, k) == \E i \in 1..Len(d) : d[i][1] = k
DGet(d, k) == d[CHOOSE i \in 1..Len(d) : d[i][1] = k][2]
DGetOr(d, k, dflt) == IF DHas(d, k) THEN DGet(d, k) ELSE dflt
RECURSIVE DReplace(_, _, _)
DReplace(d, k, x) ==
    IF d = <<>> THEN <<>>
    ELSE <<IF Head(d)[1] = k THEN <<k, x>> ELSE Head(d)>> \o DReplace(Tail(d), k, x)
\* d[k] = x: an existing key keeps its place, a new key goes last
DSet(d, k, x) == IF DHas(d, k) THEN DReplace(d, k, x) ELSE Append(d, <<k, x>>)
DDel(d, k) == SelectSeq(d, LAMBDA p : p[1] # k)

\* the document (field -> value) a dict denotes
ToDoc(d) == [k \in {d[i][1] : i \in 1..Len(d)} |-> DGet(d, k)]

Has(doc, k) == k \in DOMAIN doc
WithId(doc, id) == [k \in DOMAIN doc \cup {"_id"} |-> IF k = "_id" THEN OidV(id) ELSE doc[k]]
\* {'$set': upd}
SetFields(doc, upd) == [k \in DOMAIN doc \cup DOMAIN upd |-> IF k \in DOMAIN upd THEN upd[k] ELSE doc[k]]
\* counter value of a document, 0 when the field is missing
Counter(doc, k) == IF Has(doc, k) THEN doc[k].v ELSE 0
\* faulty variant: the counter is advanced by two
IncField_ByTwo(doc, k) == SetFields(doc, [x \in {k} |-> IntV(Counter(doc, k) + 2)])

\* {'$inc': {k: 1}}
IncField(doc, k) == SetFields(doc, [x \in {k} |-> IntV(Counter(doc, k) + 1)])

\* request.form.to_dict(): every submitted value is a string
RECURSIVE FormDict(_)
FormDict(form) ==
    IF form = <<>> THEN <<>>
    ELSE <<<<Head(form)[1], StrV(Head(form)[2])>>>> \o FormDict(Tail(form))
FormHas(form, k) == \E i \in 1..Len(form) : form[i][1] = k
FormGet(form, k) == form[CHOOSE i \in 1..Len(form) : form[i][1] = k][2]

---------------------------------------------------------------------------
(* Program constants *)

ContentTypes == {"jobs", "workshops", "courses", "hackathons", "roadmaps", "websites", "ads"}
PromotableTypes == {"jobs", "workshops", "courses", "hackathons"}
AddDescLen == 100
EditDescLen == 150

\* upload_to_cloudinary: the secure URL, or None when the service fails
upload_to_cloudinary(upload) == IF upload = "ok" THEN StrV(URL) ELSE Null

---------------------------------------------------------------------------
(* admin_add_content: the document built from the request *)

\* lines 387-391: the upload result is stored whatever it is
AddImage(d, upload) ==
    IF upload = "nofile" THEN d
    ELSE DSet(d, "image", upload_to_cloudinary(upload))

\* lines 394-397 (and 474-475 for one key)
SanitizeValue(x) ==
    IF IsStr(x) THEN set_default_value(StrV(sanitize_input(x.v))) ELSE x

RECURSIVE SanitizeAll(_)
SanitizeAll(d) ==
    IF d = <<>> THEN <<>>
    ELSE <<<<Head(d)[1], SanitizeValue(Head(d)[2])>>>> \o SanitizeAll(Tail(d))

\* lines 404-407: only certification and active are converted
AddFlag(d, k) == IF DHas(d, k) THEN DSet(d, k, BoolV(IsOn(DGet(d, k)))) ELSE d

AddFlags(d) == AddFlag(AddFlag(d, "certification"), "active")

\* lines 409-410 and 492-493
Requirements(d) ==
    IF DHas(d, "requirements") /\ DGet(d, "requirements") # StrV(NA)
    THEN DSet(d, "requirements", ListV(SplitRequirements(DGet(d, "requirements").v)))
    ELSE d

AddData(form, upload, uid) ==
    LET d1 == SanitizeAll(AddImage(FormDict(form), upload))
        d2 == DSet(DSet(d1, "posted_at", Date), "admin_id", StrV(uid))
    IN  Requirements(AddFlags(d2))

\* request.form.get('promote_as_ad') == 'on'
PromoteAsAd(form) == FormHas(form, "promote_as_ad") /\ FormGet(form, "promote_as_ad") = ON

\* a or b
Or(a, b) == IF Truthy(a) THEN a ELSE b

\* value[:n] of a string value
SliceV(x, n) == StrV(Slice(x.v, n))

\* lines 415-427
AddAdData(d, ct, id, uid) ==
    LET title == Or(DGetOr(d, "company_name", Null),
                    Or(DGetOr(d, "name", Null), DGetOr(d, "title", StrV(NA))))
        desc == Or(DGetOr(d, "role", Null),
                   SliceV(DGetOr(d, "description", StrV(NA)), AddDescLen))
    IN  << <<"title", title>>, <<"description", desc>>,
           <<"image", DGetOr(d, "image", StrV(<<>>))>>,
           <<"link", DGetOr(d, "official_link", StrV(HASH))>>,
           <<"content_type", StrV(<<ct>>)>>,
           <<"content_reference", OidV(id)>>,
           <<"active", BoolV(TRUE)>>,
           <<"clicks", IntV(0)>>,
           <<"impressions", IntV(0)>>,
           <<"posted_at", Date>>,
           <<"admin_id", StrV(uid)>> >>

---------------------------------------------------------------------------
(* admin_edit_content: the update built from the request *)

\* lines 460-465: the image is set only when the upload returned a URL
EditImage(d, upload) ==
    IF upload = "nofile" THEN d
    ELSE IF Truthy(upload_to_cloudinary(upload))
         THEN DSet(d, "image", upload_to_cloudinary(upload))
         ELSE d

\* lines 477-490 for one flag
EditFlag(d, k) ==
    IF DHas(d, k) THEN DSet(d, k, BoolV(IsOn(DGet(d, k))))
    ELSE DSet(d, k, BoolV(FALSE))

EditFlags(d) == EditFlag(EditFlag(EditFlag(d, "certification"), "active"), "is_project")

\* lines 472-490: the flags are converted inside the loop, inside the
\* isinstance test, once for every key whose value is still a string
RECURSIVE EditLoop(_, _)
EditLoop(d, keys) ==
    IF keys = <<>> THEN d
    ELSE LET key == Head(keys) IN
         IF IsStr(DGet(d, key))
         THEN EditLoop(EditFlags(DSet(d, key, SanitizeValue(DGet(d, key)))), Tail(keys))
         ELSE EditLoop(d, Tail(keys))

EditData(form, upload) ==
    LET d1 == DDel(EditImage(FormDict(form), upload), "promote_as_ad")
        d2 == EditLoop(d1, DKeys(d1))
    IN  DSet(Requirements(d2), "updated_at", Date)

\* lines 501-511
EditAdData(d, ct, id, uid) ==
    LET title == Or(DGetOr(d, "company_name", Null),
                    Or(DGetOr(d, "name", Null), StrV(<<"Opportunity">>)))
        desc == SliceV(Or(DGetOr(d, "role", Null), DGetOr(d, "description", StrV(<<>>))),
                       EditDescLen)
    IN  << <<"title", title>>, <<"description", desc>>,
           <<"image", DGetOr(d, "image", StrV(<<>>))>>,
           <<"link", DGetOr(d, "official_link", StrV(HASH))>>,
           <<"content_type", StrV(<<ct>>)>>,
           <<"content_reference", OidV(id)>>,
           <<"active", BoolV(TRUE)>>,
           <<"updated_at", Date>>,
           <<"admin_id", StrV(uid)>> >>

\* lines 519-521
NewAdCounters(d) ==
    DSet(DSet(DSet(d, "clicks", IntV(0)), "impressions", IntV(0)), "posted_at", Date)

---------------------------------------------------------------------------
(* Collection operations of the document database *)

InsertOne(coll, doc, id) == coll \cup {WithId(doc, id)}
UpdateOne(coll, id, upd) == {IF d["_id"].v = id THEN SetFields(d, upd) ELSE d : d \in coll}
DeleteOne(coll, id) == {d \in coll : d["_id"].v # id}
FindId(coll, id) == {d \in coll : d["_id"].v = id}

\* find({'content_reference': ObjectId(id)})
AdsRef(ads, id) ==
    {a \in ads : Has(a, "content_reference")
                 /\ a["content_reference"].t = "oid" /\ a["content_reference"].v = id}

\* delete_many({'content_reference': ObjectId(id)})
DeleteManyRef(ads, id) == ads \ AdsRef(ads, id)

\* line 412
AddInsert(d, ct, data, id) == [d EXCEPT ![ct] = InsertOne(@, ToDoc(data), id)]

\* faulty variant: the ad is derived whether or not the flag was set
AddPromote_Always(d, promote, data, ct, id, uid) ==
    [d EXCEPT !["ads"] = InsertOne(@, ToDoc(AddAdData(data, ct, id, uid)), id + 1)]

\* lines 414-428: the derived ad takes the next id
AddPromote(d, promote, data, ct, id, uid) ==
    IF promote
    THEN [d EXCEPT !["ads"] = InsertOne(@, ToDoc(AddAdData(data, ct, id, uid)), id + 1)]
    ELSE d

\* line 497
EditUpdate(d, ct, id, data) == [d EXCEPT ![ct] = UpdateOne(@, id, ToDoc(data))]

\* lines 513-523: ex is the _id find_one returned, 0 when it returned None
EditUpsertAd(d, ex, adData, newId) ==
    IF ex # 0
    THEN [d EXCEPT !["ads"] = UpdateOne(@, ex, ToDoc(adData))]
    ELSE [d EXCEPT !["ads"] = InsertOne(@, ToDoc(NewAdCounters(adData)), newId)]

\* line 525
EditRemoveAds(d, id) == [d EXCEPT !["ads"] = DeleteManyRef(@, id)]

\* line 499: which content types have their ad maintained on edit
EditTouchesAds(ct) == ct \in PromotableTypes

\* faulty variant: the ads that reference the item are left behind
DeleteCascade_ContentOnly(d, ct, id) == [d EXCEPT ![ct] = DeleteOne(@, id)]

\* lines 566-567
DeleteCascade(d, ct, id) ==
    LET d1 == [d EXCEPT ![ct] = DeleteOne(@, id)]
    IN  [d1 EXCEPT !["ads"] = DeleteManyRef(@, id)]

\* faulty variant: the filter on _id is lost
IncCounter_EveryAd(d, id, k) == [d EXCEPT !["ads"] = {IncField(a, k) : a \in @}]

\* lines 740-743 and 760-763
IncCounter(d, id, k) ==
    [d EXCEPT !["ads"] = {IF a["_id"].v = id THEN IncField(a, k) ELSE a : a \in @}]

\* lines 768-773
ClickEvent(id, sess) ==
    [ad_id |-> id, clicked_at |-> Date,
     user_id |-> IF "user_id" \in DOMAIN sess THEN StrV(sess["user_id"]) ELSE Null,
     ip_address |-> StrV(<<"remote_addr">>)]

---------------------------------------------------------------------------
(* Session and guards *)

ADMIN_USERNAME == <<"a", "d", "m", "i", "n">>
ADMIN_PASSWORD == <<"a", "d", "m", "i", "n", "1", "2", "3">>

NoSession == [k \in {} |-> TRUE]
LoggedIn == "user_id" \in DOMAIN session
\* faulty variant: any logged-in session passes the admin guard
IsAdmin_AnyUser == "user_id" \in DOMAIN session
\* 'user_id' not in session or not session.get('is_admin')
IsAdmin == LoggedIn /\ "is_admin" \in DOMAIN session /\ session["is_admin"]

EmptyCache == {}
\* cache.delete_memoized(get_cached_content, content_type, page)
delete_memoized(c, ct, page) == {e \in c : ~(e.ct = ct /\ e.page = page)}
\* faulty variant: the whole-cache clear is lost
cache_clear_Lost(c) == c
\* cache.clear()
cache_clear(c) == EmptyCache
\* lines 430-432, 534-535, 570-571
CacheClear(c, ct) == cache_clear(delete_memoized(c, ct, 1))

\* faulty variant: every content type is let through
InvalidType_None(ct) == FALSE
\* content_type not in collection_map (lines 381, 451, 563)
InvalidType(ct) == ct \notin ContentTypes

\* a worker that serves no request
Idle == [step |-> "idle", ct |-> "", id |-> 0, form |-> <<>>, upload |-> "nofile",
         ex |-> 0, pre |-> 0]

Procs == {1, 2}

\* no read has been served yet, or the response carries no document
NoResponse == [items |-> <<>>]

\* the last request served: its inputs, its response, the id of the ad it wrote
\* (0 when none) and pre, what it found before it acted: the number of ads that
\* referenced id (edit, delete), the value of the counter (impression, click) or
\* the number of entries the cache held (add)
Rec(op, ct, id, form, upload, status, adId, pre) ==
    [op |-> op, ct |-> ct, id |-> id, form |-> form, upload |-> upload,
     status |-> status, adId |-> adId, pre |-> pre]

\* the state after construction, but for the arguments of a helper call
InitBase ==
    /\ db = [c \in ContentTypes |-> {}]
    /\ ad_clicks = <<>>
    /\ users = {}
    /\ session = NoSession
    /\ cache = EmptyCache
    /\ nextId = 1
    /\ last = Rec("init", "", 0, <<>>, "nofile", "", 0, 0)
    /\ pc = [p \in Procs |-> Idle]
    /\ resp = NoResponse
    /\ now = 0
    /\ memo = <<>>

Init == InitBase /\ args = <<>>

\* werkzeug's password hash, kept abstract: a tagged copy of the password
generate_password_hash(password) == <<"pbkdf2">> \o password
check_password_hash(hash, password) == hash = generate_password_hash(password)

\* login, POST (lines 200-232)
Login(email, password) ==
    /\ UNCHANGED aux
    /\ UNCHANGED <<db, ad_clicks, users, cache, nextId, pc>>
    /\ IF LoggedIn
       THEN /\ last' = Rec("login", "", 0, <<>>, "nofile", "already", 0, 0)
            /\ UNCHANGED session
       ELSE LET e == sanitize_input(Strip(email))
                found == {u \in users : u.email = e /\ check_password_hash(u.password, password)}
            IN  IF e = ADMIN_USERNAME /\ password = ADMIN_PASSWORD
                THEN /\ session' = [user_id |-> AdminId, is_admin |-> TRUE, username |-> <<"Admin">>]
                     /\ last' = Rec("login", "", 0, <<>>, "nofile", "admin", 0, 0)
                ELSE IF found # {}
                THEN /\ session' = LET u == CHOOSE x \in found : TRUE IN
                                     [user_id |-> OidStr(u["_id"]).v, is_admin |-> FALSE,
                                      username |-> u.name]
                     /\ last' = Rec("login", "", 0, <<>>, "nofile", "user", 0, 0)
                ELSE /\ last' = Rec("login", "", 0, <<>>, "nofile", "invalid", 0, 0)
                     /\ UNCHANGED session

\* logout (lines 286-290)
Logout ==
    /\ UNCHANGED aux
    /\ session' = NoSession
    /\ last' = Rec("logout", "", 0, <<>>, "nofile", "ok", 0, 0)
    /\ UNCHANGED <<db, ad_clicks, users, cache, nextId, pc>>

---------------------------------------------------------------------------
(* Admin handlers, one request at a time *)

\* admin_add_content (lines 367-435)
AddContent(ct, form, upload) ==
    /\ UNCHANGED aux
    /\ UNCHANGED <<ad_clicks, users, session, pc>>
    /\ IF ~IsAdmin
       THEN /\ last' = Rec("add", ct, 0, form, upload, "login", 0, 0)
            /\ UNCHANGED <<db, cache, nextId>>
       ELSE IF InvalidType(ct)
       THEN /\ last' = Rec("add", ct, 0, form, upload, "400", 0, 0)
            /\ UNCHANGED <<db, cache, nextId>>
       ELSE LET uid == session["user_id"]
                data == AddData(form, upload, uid)
                promote == PromoteAsAd(form)
                used == IF promote THEN 2 ELSE 1
            IN  /\ nextId + used - 1 <= MaxIds
                /\ db' = AddPromote(AddInsert(db, ct, data, nextId), promote, data, ct, nextId, uid)
                /\ nextId' = nextId + used
                /\ cache' = CacheClear(cache, ct)
                /\ last' = Rec("add", ct, nextId, form, upload, "ok",
                               IF promote THEN nextId + 1 ELSE 0, Cardinality(cache))

\* admin_edit_content, POST (lines 437-537)
EditContent(ct, id, form, upload) ==
    /\ UNCHANGED aux
    /\ UNCHANGED <<ad_clicks, users, session, pc>>
    /\ IF ~IsAdmin
       THEN /\ last' = Rec("edit", ct, id, form, upload, "login", 0, 0)
            /\ UNCHANGED <<db, cache, nextId>>
       ELSE IF InvalidType(ct)
       THEN /\ last' = Rec("edit", ct, id, form, upload, "invalid", 0, 0)
            /\ UNCHANGED <<db, cache, nextId>>
       ELSE LET uid == session["user_id"]
                data == EditData(form, upload)
                promote == PromoteAsAd(form)
                db1 == EditUpdate(db, ct, id, data)
                found == AdsRef(db1["ads"], id)
            IN  IF EditTouchesAds(ct) /\ promote
                THEN \E ex \in (IF found = {} THEN {0} ELSE {a["_id"].v : a \in found}) :
                        /\ ex = 0 => nextId <= MaxIds
                        /\ db' = EditUpsertAd(db1, ex, EditAdData(data, ct, id, uid), nextId)
                        /\ nextId' = IF ex = 0 THEN nextId + 1 ELSE nextId
                        /\ cache' = CacheClear(cache, ct)
                        /\ last' = Rec("edit", ct, id, form, upload, "ok",
                                       IF ex = 0 THEN nextId ELSE ex, Cardinality(found))
                ELSE /\ db' = IF EditTouchesAds(ct) THEN EditRemoveAds(db1, id) ELSE db1
                     /\ nextId' = nextId
                     /\ cache' = CacheClear(cache, ct)
                     /\ last' = Rec("edit", ct, id, form, upload, "ok", 0, Cardinality(found))

\* admin_delete_content (lines 549-574)
DeleteContent(ct, id) ==
    /\ UNCHANGED aux
    /\ UNCHANGED <<ad_clicks, users, session, nextId, pc>>
    /\ IF ~IsAdmin
       THEN /\ last' = Rec("delete", ct, id, <<>>, "nofile", "login", 0, 0)
            /\ UNCHANGED <<db, cache>>
       ELSE IF InvalidType(ct)
       THEN /\ last' = Rec("delete", ct, id, <<>>, "nofile", "400", 0, 0)
            /\ UNCHANGED <<db, cache>>
       ELSE /\ db' = DeleteCascade(db, ct, id)
            /\ cache' = CacheClear(cache, ct)
            /\ last' = Rec("delete", ct, id, <<>>, "nofile", "ok", 0,
                           Cardinality(AdsRef(db["ads"], id)))

---------------------------------------------------------------------------
(* Ad tracking *)

RECURSIVE SumCounter(_, _)
SumCounter(S, k) ==
    IF S = {} THEN 0
    ELSE LET a == CHOOSE x \in S : TRUE IN Counter(a, k) + SumCounter(S \ {a}, k)

\* the tracking events the model has recorded so far
Tracked == Len(ad_clicks) + SumCounter(db["ads"], "impressions")

\* the counter k of the ad with this id, 0 when there is no such ad or field
CounterOf(ads, id, k) == SumCounter(FindId(ads, id), k)

\* ad_impression (lines 733-751); id 0 is not a valid ObjectId
AdImpression(id) ==
    /\ UNCHANGED aux
    /\ UNCHANGED <<ad_clicks, users, session, cache, nextId, pc>>
    /\ IF id = 0
       THEN /\ last' = Rec("impression", "", id, <<>>, "nofile", "400", 0, 0)
            /\ UNCHANGED db
       ELSE IF FindId(db["ads"], id) = {}
       THEN /\ last' = Rec("impression", "", id, <<>>, "nofile", "404", 0, 0)
            /\ UNCHANGED db
       ELSE /\ Tracked < MaxTrack
            /\ db' = IncCounter(db, id, "impressions")
            /\ last' = Rec("impression", "", id, <<>>, "nofile", "200", 0,
                           CounterOf(db["ads"], id, "impressions"))

\* ad_click (lines 753-778)
AdClick(id) ==
    /\ UNCHANGED aux
    /\ UNCHANGED <<users, session, cache, nextId, pc>>
    /\ IF id = 0
       THEN /\ last' = Rec("click", "", id, <<>>, "nofile", "400", 0, 0)
            /\ UNCHANGED <<db, ad_clicks>>
       ELSE IF FindId(db["ads"], id) = {}
       THEN /\ last' = Rec("click", "", id, <<>>, "nofile", "404", 0, 0)
            /\ UNCHANGED <<db, ad_clicks>>
       ELSE /\ Tracked < MaxTrack
            /\ db' = IncCounter(db, id, "clicks")
            /\ ad_clicks' = Append(ad_clicks, ClickEvent(id, session))
            /\ last' = Rec("click", "", id, <<>>, "nofile", "200", 0,
                           CounterOf(db["ads"], id, "clicks"))

---------------------------------------------------------------------------
(* Requests the environment sends *)

\* The forms of a page: fields is the sequence of <<name, values>> of its
\* inputs in document order; a submitted form carries, in that order, each
\* input with one of its values, or not at all (an unchecked box)
RECURSIVE Forms(_)
Forms(fields) ==
    IF fields = <<>> THEN {<<>>}
    ELSE LET rest == Forms(Tail(fields)) IN
         rest \cup {<<<<Head(fields)[1], x>>>> \o f : x \in Head(fields)[2], f \in rest}

Ids == 1..MaxIds
\* one promotable type, one that is not, and the ads themselves
ReqTypes == {"jobs", "roadmaps", "ads"}
Credentials == {<<ADMIN_USERNAME, ADMIN_PASSWORD>>, <<ADMIN_USERNAME, <<"x">>>>}

LinkForms == Forms(<< <<"promote_as_ad", {ON}>> >>)

\* Ad linking: the admin writes, and clicks so that counters are not all zero
Next ==
    \/ \E c \in Credentials : Login(c[1], c[2])
    \/ \E ct \in ReqTypes, form \in LinkForms : AddContent(ct, form, "nofile")
    \/ \E ct \in ReqTypes, id \in Ids, form \in LinkForms : EditContent(ct, id, form, "nofile")
    \/ \E ct \in ReqTypes, id \in Ids : DeleteContent(ct, id)
    \/ \E id \in Ids : AdClick(id)

Spec == Init /\ [][Next]_vars

\* Ad tracking: ads come and go, visitors (logged in or not) view and click
NextTrack ==
    \/ \E c \in Credentials : Login(c[1], c[2])
    \/ Logout
    \/ \E ct \in {"jobs", "ads"}, form \in LinkForms : AddContent(ct, form, "nofile")
    \/ \E id \in Ids : DeleteContent("ads", id)
    \/ \E id \in 0..MaxIds : AdImpression(id)
    \/ \E id \in 0..MaxIds : AdClick(id)

SpecTrack == Init /\ [][NextTrack]_vars

---------------------------------------------------------------------------
(* admin_edit_content served by two workers: every database operation of the
   POST branch is a step of its own, and the steps of the two requests
   interleave.  pc[p] is the request worker p is serving and where it is. *)

\* the ads the interleaved requests insert may take one id more
MaxConcIds == MaxIds + 1

At(p, step) == pc[p].step = step

\* guards passed, line 497: the content item is updated
EditBegin(p, ct, id, form, upload) ==
    /\ UNCHANGED aux
    /\ At(p, "idle")
    /\ IsAdmin /\ ct \in ContentTypes
    /\ db' = EditUpdate(db, ct, id, EditData(form, upload))
    /\ pc' = [pc EXCEPT ![p] = [Idle EXCEPT !.step = IF ~EditTouchesAds(ct) THEN "clear"
                                                     ELSE IF PromoteAsAd(form) THEN "find"
                                                     ELSE "remove",
                                         !.ct = ct, !.id = id, !.form = form,
                                         !.upload = upload]]
    /\ UNCHANGED <<ad_clicks, users, session, cache, nextId, last>>

\* line 513: find_one returns any ad that references the item, or None
EditFind(p) ==
    /\ UNCHANGED aux
    /\ At(p, "find")
    /\ LET found == AdsRef(db["ads"], pc[p].id) IN
       \E ex \in (IF found = {} THEN {0} ELSE {a["_id"].v : a \in found}) :
           pc' = [pc EXCEPT ![p].step = "write", ![p].ex = ex, ![p].pre = Cardinality(found)]
    /\ UNCHANGED <<db, ad_clicks, users, session, cache, nextId, last>>

\* lines 515-523: update the ad found, or insert a new one
EditWrite(p) ==
    /\ UNCHANGED aux
    /\ At(p, "write")
    /\ IsAdmin
    /\ pc[p].ex = 0 => nextId <= MaxConcIds
    /\ db' = EditUpsertAd(db, pc[p].ex,
                          EditAdData(EditData(pc[p].form, pc[p].upload), pc[p].ct,
                                     pc[p].id, session["user_id"]),
                          nextId)
    /\ nextId' = IF pc[p].ex = 0 THEN nextId + 1 ELSE nextId
    /\ pc' = [pc EXCEPT ![p].step = "clear", ![p].ex = IF pc[p].ex = 0 THEN nextId ELSE pc[p].ex]
    /\ UNCHANGED <<ad_clicks, users, session, cache, last>>

\* line 525
EditRemove(p) ==
    /\ UNCHANGED aux
    /\ At(p, "remove")
    /\ db' = EditRemoveAds(db, pc[p].id)
    /\ pc' = [pc EXCEPT ![p].step = "clear", ![p].pre = Cardinality(AdsRef(db["ads"], pc[p].id))]
    /\ UNCHANGED <<ad_clicks, users, session, cache, nextId, last>>

\* lines 534-537: the cache is cleared and the response sent
EditClear(p) ==
    /\ UNCHANGED aux
    /\ At(p, "clear")
    /\ cache' = CacheClear(cache, pc[p].ct)
    /\ last' = Rec("edit", pc[p].ct, pc[p].id, pc[p].form, pc[p].upload, "ok",
                   pc[p].ex, pc[p].pre)
    /\ pc' = [pc EXCEPT ![p] = Idle]
    /\ UNCHANGED <<db, ad_clicks, users, session, nextId>>

\* the ids of the items of a collection: the admin pages link to these
ItemIds(ct) == {d["_id"].v : d \in db[ct]}

NextConc ==
    \/ \E c \in Credentials : Login(c[1], c[2])
    \/ \E ct \in {"jobs", "roadmaps"}, form \in LinkForms : AddContent(ct, form, "nofile")
    \/ \E ct \in {"jobs", "roadmaps"}, id \in Ids : DeleteContent(ct, id)
    \/ \E p \in Procs, ct \in {"jobs", "roadmaps"}, form \in LinkForms :
          \E id \in ItemIds(ct) : EditBegin(p, ct, id, form, "nofile")
    \/ \E p \in Procs : EditFind(p)
    \/ \E p \in Procs : EditWrite(p)
    \/ \E p \in Procs : EditRemove(p)
    \/ \E p \in Procs : EditClear(p)

SpecConc == Init /\ [][NextConc]_vars

---------------------------------------------------------------------------
(* Form processing: one item is created, edited any number of times and
   deleted, with forms that carry markup, blank values, the flags and a
   requirements list, and with an image upload that succeeds or fails *)

\* the inputs of the page of a job: a checkbox first, then text
JobForms ==
    Forms(<< <<"certification", {ON, <<" ">>}>>,
             <<"name", {<<"<", "a", ">">>, <<>>}>>,
             <<"requirements", {<<"<", ",", " ", ",", "a">>, <<" ">>}>> >>)
\* the inputs of the page of a website: text first, then the checkboxes
WebsiteForms ==
    Forms(<< <<"name", {<<"<", "a", ">">>, <<" ">>}>>,
             <<"is_project", {ON}>>,
             <<"promote_as_ad", {<<" ">>}>> >>)
FieldForms(ct) == IF ct = "websites" THEN WebsiteForms ELSE JobForms
Uploads == {"nofile", "ok", "fail"}
FormTypes == {"jobs", "websites"}

NoItems == \A c \in ContentTypes \ {"ads"} : db[c] = {}

NextForm ==
    \/ \E c \in Credentials : Login(c[1], c[2])
    \/ \E ct \in FormTypes, upload \in Uploads : \E form \in FieldForms(ct) :
          NoItems /\ AddContent(ct, form, upload)
    \/ \E ct \in FormTypes, upload \in Uploads : \E form \in FieldForms(ct) :
          \E id \in ItemIds(ct) : EditContent(ct, id, form, upload)
    \/ \E ct \in FormTypes : \E id \in ItemIds(ct) : DeleteContent(ct, id)

SpecForm == Init /\ [][NextForm]_vars

\* our_projects (lines 665-669): the documents the page is rendered from
our_projects ==
    {[k \in DOMAIN d \ {"admin_id"} |-> d[k]] :
        d \in {w \in db["websites"] : Has(w, "is_project") /\ w["is_project"] = BoolV(TRUE)}}

---------------------------------------------------------------------------
(* Helper functions of the listing pages *)

ITEMS_PER_PAGE == 30
\* lru_cache(maxsize=128) of time_ago
TimeAgoCacheSize == 128

\* f"{n} {unit}{'s' if n > 1 else ''} ago", as the pieces it is formatted from
Ago(n, unit) == <<ToString(n), " ", unit, IF n > 1 THEN "s" ELSE "", " ago">>

\* the body of time_ago (lines 119-144): posted_at and the clock in seconds
time_ago_body(posted_at, clock) ==
    LET seconds == clock - posted_at IN
    IF seconds < 60 THEN <<"Just now">>
    ELSE IF seconds < 3600 THEN Ago(seconds \div 60, "minute")
    ELSE IF seconds < 86400 THEN Ago(seconds \div 3600, "hour")
    ELSE IF seconds < 604800 THEN Ago(seconds \div 86400, "day")
    ELSE IF seconds < 2592000 THEN Ago(seconds \div 604800, "week")
    ELSE Ago(seconds \div 2592000, "month")

\* the lru_cache: <<argument, result>> pairs, the most recently used last
MemoHas(m, k) == \E i \in 1..Len(m) : m[i][1] = k
MemoGet(m, k) == m[CHOOSE i \in 1..Len(m) : m[i][1] = k][2]
MemoTouch(m, k) == SelectSeq(m, LAMBDA e : e[1] # k) \o <<<<k, MemoGet(m, k)>>>>
MemoPut(m, k, v) ==
    (IF Len(m) >= TimeAgoCacheSize THEN Tail(m) ELSE m) \o <<<<k, v>>>>

\* time_ago as it is called (line 116): a hit returns the stored string
time_ago(m, posted_at, clock) ==
    IF MemoHas(m, posted_at) THEN MemoGet(m, posted_at)
    ELSE time_ago_body(posted_at, clock)

\* the lru_cache after the call
time_ago_memo(m, posted_at, clock) ==
    IF MemoHas(m, posted_at) THEN MemoTouch(m, posted_at)
    ELSE MemoPut(m, posted_at, time_ago_body(posted_at, clock))

\* faulty variant: the number of pages is rounded down
get_pagination_data_RoundedDown(page, total_items) ==
    LET total_pages == total_items \div ITEMS_PER_PAGE
        has_prev == page > 1
        has_next == page < total_pages
    IN  [page |-> page, total_pages |-> total_pages,
         has_prev |-> has_prev, has_next |-> has_next,
         prev_page |-> IF has_prev THEN IntV(page - 1) ELSE Null,
         next_page |-> IF has_next THEN IntV(page + 1) ELSE Null]

\* get_pagination_data (lines 179-191)
get_pagination_data(page, total_items) ==
    LET total_pages == (total_items + ITEMS_PER_PAGE - 1) \div ITEMS_PER_PAGE
        has_prev == page > 1
        has_next == page < total_pages
    IN  [page |-> page, total_pages |-> total_pages,
         has_prev |-> has_prev, has_next |-> has_next,
         prev_page |-> IF has_prev THEN IntV(page - 1) ELSE Null,
         next_page |-> IF has_next THEN IntV(page + 1) ELSE Null]

\* Pagination: get_pagination_data is called with a page and a number of items
MaxPage == 4
MaxTotal == 61

InitPage == InitBase /\ args \in (1..MaxPage) \X (0..MaxTotal)

Paginate ==
    /\ resp' = get_pagination_data(args[1], args[2])
    /\ last' = Rec("paginate", "", 0, <<>>, "nofile", "ok", 0, 0)
    /\ UNCHANGED <<db, ad_clicks, users, session, cache, nextId, pc, now, memo, args>>

NextPage == Paginate

SpecPage == InitPage /\ [][NextPage]_vars

\* Relative times: the clock advances and time_ago is called for timestamps.
\* Instants are whole seconds on both sides of every threshold of time_ago.
Instants ==
    {0, 59, 60, 61, 119, 120, 3599, 3600, 7199, 7200, 86399, 86400, 172800,
     604799, 604800, 1209600, 2591999, 2592000, 5184000}
Timestamps == {0, 60}

Tick(t) ==
    /\ t > now
    /\ now' = t
    /\ last' = Rec("tick", "", 0, <<>>, "nofile", "", 0, 0)
    /\ UNCHANGED <<db, ad_clicks, users, session, cache, nextId, pc, resp, memo, args>>

\* time_ago(str(posted_at)) (lines 116-144, called at 611, 692, 869, 999)
TimeAgo(posted_at) ==
    /\ args' = <<posted_at>>
    /\ resp' = time_ago(memo, posted_at, now)
    /\ memo' = time_ago_memo(memo, posted_at, now)
    /\ last' = Rec("time_ago", "", 0, <<>>, "nofile",
                   IF MemoHas(memo, posted_at) THEN "hit" ELSE "miss", 0, 0)
    /\ UNCHANGED <<db, ad_clicks, users, session, cache, nextId, pc, now>>

NextTime ==
    \/ \E t \in Instants : Tick(t)
    \/ \E ts \in Timestamps : TimeAgo(ts)

SpecTime == Init /\ [][NextTime]_vars

---------------------------------------------------------------------------
(* Public listing pages and the memoised listing *)

\* the collections get_cached_content knows (lines 580-585)
ListingTypes == {"jobs", "workshops", "courses", "hackathons"}

\* faulty variant: the projection is lost
Exclude_Nothing(doc, fields) == doc
\* a projection that leaves fields out: {'admin_id': 0}
Exclude(doc, fields) == [k \in DOMAIN doc \ fields |-> doc[k]]
\* a projection that keeps fields (and _id): {'title': 1, ...}
Include(doc, fields) == [k \in DOMAIN doc \cap (fields \cup {"_id"}) |-> doc[k]]

\* sort('posted_at', DESCENDING): posted_at is set once, at the insert, and ids
\* are handed out in insert order, so the newest document has the largest _id
RECURSIVE SortDesc(_)
SortDesc(coll) ==
    IF coll = {} THEN <<>>
    ELSE LET d == CHOOSE x \in coll : \A y \in coll : y["_id"].v <= x["_id"].v
         IN  <<d>> \o SortDesc(coll \ {d})

\* .skip(skip).limit(limit)
SkipLimit(items, skip, limit) ==
    IF skip >= Len(items) THEN <<>>
    ELSE SubSeq(items, skip + 1, IF skip + limit < Len(items) THEN skip + limit ELSE Len(items))

RECURSIVE MapExclude(_, _)
MapExclude(items, fields) ==
    IF items = <<>> THEN <<>>
    ELSE <<Exclude(Head(items), fields)>> \o MapExclude(Tail(items), fields)

\* the body of get_cached_content (lines 580-601)
get_cached_content_body(d, ct, page) ==
    IF ct \notin ListingTypes THEN [items |-> <<>>, total |-> 0]
    ELSE [items |-> MapExclude(SkipLimit(SortDesc(d[ct]), (page - 1) * ITEMS_PER_PAGE,
                                         ITEMS_PER_PAGE), {"admin_id"}),
          total |-> Cardinality(d[ct])]

\* cache.memoize (line 577): the entry of a call, when the cache holds one
CacheHit(c, ct, page) == {e \in c : e.ct = ct /\ e.page = page}
CacheStore(c, ct, page, val) ==
    delete_memoized(c, ct, page) \cup {[ct |-> ct, page |-> page, val |-> val]}

\* get_cached_content as it is called: what it returns
get_cached_content(c, d, ct, page) ==
    IF CacheHit(c, ct, page) # {} THEN (CHOOSE e \in CacheHit(c, ct, page) : TRUE).val
    ELSE get_cached_content_body(d, ct, page)

\* lines 610-611: every item gets its time_ago; the result is <<items, lru_cache>>
RECURSIVE StampAll(_, _, _)
StampAll(items, m, clock) ==
    IF items = <<>> THEN <<<<>>, m>>
    ELSE LET it == Head(items)
             t == it["posted_at"].v
             rest == StampAll(Tail(items), time_ago_memo(m, t, clock), clock)
         IN  <<<<[k \in DOMAIN it \cup {"time_ago"} |->
                    IF k = "time_ago" THEN time_ago(m, t, clock) ELSE it[k]]>> \o rest[1],
               rest[2]>>

\* jobs, workshops, courses, hackathons (lines 604-650)
Listing(ct, page) ==
    LET val == get_cached_content(cache, db, ct, page)
        stamped == StampAll(val.items, memo, now)
    IN  /\ cache' = CacheStore(cache, ct, page, val)
        /\ memo' = stamped[2]
        /\ resp' = [items |-> stamped[1], pagination |-> get_pagination_data(page, val.total)]
        /\ last' = Rec("listing", ct, page, <<>>, "nofile", "200", 0, 0)
        /\ UNCHANGED <<db, ad_clicks, users, session, nextId, pc, now, args>>

\* an entry of the cache reaches its timeout (CACHE_TIMEOUT, line 577)
CacheExpire(ct, page) ==
    /\ CacheHit(cache, ct, page) # {}
    /\ cache' = delete_memoized(cache, ct, page)
    /\ last' = Rec("expire", ct, page, <<>>, "nofile", "", 0, 0)
    /\ UNCHANGED <<db, ad_clicks, users, session, nextId, pc, resp, now, memo, args>>

Pages == {1, 2}
\* content types the routes do not know
UnknownTypes == {"blogs", "job"}
CacheTypes == {"jobs", "courses"}

\* Listing cache: visitors read the pages while the admin writes, with content
\* types the routes know and others
NextCache ==
    \/ \E c \in Credentials : Login(c[1], c[2])
    \/ \E ct \in CacheTypes, page \in Pages : Listing(ct, page)
    \/ \E ct \in CacheTypes, page \in Pages : CacheExpire(ct, page)
    \/ \E ct \in CacheTypes \cup UnknownTypes, form \in LinkForms : AddContent(ct, form, "nofile")
    \/ \E ct \in CacheTypes \cup UnknownTypes, id \in Ids, form \in LinkForms :
          EditContent(ct, id, form, "nofile")
    \/ \E ct \in CacheTypes \cup UnknownTypes, id \in Ids : DeleteContent(ct, id)

SpecCache == Init /\ [][NextCache]_vars

---------------------------------------------------------------------------
(* The other public reads *)

\* a find without a sort returns the documents in their natural order
RECURSIVE Natural(_)
Natural(coll) ==
    IF coll = {} THEN <<>>
    ELSE LET d == CHOOSE x \in coll : \A y \in coll : x["_id"].v <= y["_id"].v
         IN  <<d>> \o Natural(coll \ {d})

\* .limit(n)
Limit(items, n) == SkipLimit(items, 0, n)

RECURSIVE MapInclude(_, _)
MapInclude(items, fields) ==
    IF items = <<>> THEN <<>>
    ELSE <<Include(Head(items), fields)>> \o MapInclude(Tail(items), fields)

\* doc[k] = x, the field added when it is missing
With(doc, k, x) == [f \in DOMAIN doc \cup {k} |-> IF f = k THEN x ELSE doc[f]]
\* doc.get(k, dflt)
GetOr(doc, k, dflt) == IF Has(doc, k) THEN doc[k] ELSE dflt

\* redirect to the login page: login_required (lines 98-105)
LoginRedirect(op, ct, id) ==
    /\ resp' = NoResponse
    /\ last' = Rec(op, ct, id, <<>>, "nofile", "login", 0, 0)
    /\ UNCHANGED <<db, ad_clicks, users, session, cache, nextId, pc, now, memo, args>>

\* a read that answers with documents and changes nothing
Answer(op, ct, id, status, r) ==
    /\ resp' = r
    /\ last' = Rec(op, ct, id, <<>>, "nofile", status, 0, 0)
    /\ UNCHANGED <<db, ad_clicks, users, session, cache, nextId, pc, now, memo, args>>

\* roadmaps (lines 652-657)
Roadmaps ==
    IF ~LoggedIn THEN LoginRedirect("roadmaps", "roadmaps", 0)
    ELSE Answer("roadmaps", "roadmaps", 0, "200",
                [items |-> MapExclude(Natural(db["roadmaps"]), {"admin_id"})])

\* websites (lines 659-663)
Websites ==
    Answer("websites", "websites", 0, "200",
           [items |-> MapExclude(Natural(db["websites"]), {"admin_id"})])

\* our_projects (lines 665-669), as a request
OurProjects ==
    Answer("our_projects", "websites", 0, "200", [items |-> Natural(our_projects)])

\* the fields get_ads projects (lines 789-795)
AdFields == {"title", "description", "image", "link", "clicks"}

\* lines 799-806: ids become strings, missing fields get their defaults
AdJson(ad) ==
    LET a1 == With(ad, "_id", OidStr(ad["_id"]))
        a2 == IF Has(a1, "content_reference")
              THEN With(a1, "content_reference", OidStr(a1["content_reference"])) ELSE a1
        a3 == With(a2, "title", GetOr(a2, "title", StrV(<<"Opportunity">>)))
        a4 == With(a3, "description", GetOr(a3, "description", StrV(<<>>)))
        a5 == With(a4, "image", GetOr(a4, "image", StrV(<<>>)))
    IN  With(a5, "link", GetOr(a5, "link", StrV(HASH)))

RECURSIVE MapAdJson(_)
MapAdJson(items) ==
    IF items = <<>> THEN <<>> ELSE <<AdJson(Head(items))>> \o MapAdJson(Tail(items))

\* {'$sample': {'size': 5}}: any five of the matching ads, all when there are fewer
SampleSize == 5
Sample(coll) ==
    IF Cardinality(coll) <= SampleSize THEN {coll}
    ELSE {S \in SUBSET coll : Cardinality(S) = SampleSize}

\* get_ads (lines 781-811)
GetAds ==
    \E S \in Sample({a \in db["ads"] : Has(a, "active") /\ a["active"] = BoolV(TRUE)}) :
        Answer("get_ads", "ads", 0, "200",
               [items |-> MapAdJson(MapInclude(Natural(S), AdFields))])

\* the names detail_page knows, and the collection of each (lines 676-681)
DetailTypes == {"job", "workshop", "course", "hackathon"}
CollectionOf(ct) ==
    CASE ct = "job" -> "jobs" [] ct = "workshop" -> "workshops"
      [] ct = "course" -> "courses" [] OTHER -> "hackathons"

\* lines 695-707: up to three other documents, a few fields of each
Related(d, ct, item) ==
    LET others == {x \in d[CollectionOf(ct)] : x["_id"] # item["_id"]}
    IN  IF ct = "job"
        THEN MapInclude(Limit(Natural({x \in others :
                                GetOr(x, "job_type", Null) = GetOr(item, "job_type", Null)}), 3),
                        {"company_name", "role", "location", "posted_at", "image"})
        ELSE MapInclude(Limit(Natural(others), 3), {"name", "organizer", "posted_at", "image"})

\* detail_page (lines 672-709)
Detail(ct, id) ==
    IF ~LoggedIn THEN LoginRedirect("detail", ct, id)
    ELSE IF ct \notin DetailTypes THEN Answer("detail", ct, id, "invalid", NoResponse)
    ELSE IF FindId(db[CollectionOf(ct)], id) = {} THEN Answer("detail", ct, id, "notfound", NoResponse)
    ELSE LET item == Exclude(CHOOSE x \in FindId(db[CollectionOf(ct)], id) : TRUE, {"admin_id"})
             stamped == StampAll(<<item>>, memo, now)
         IN  /\ resp' = [items |-> stamped[1], related |-> Related(db, ct, item)]
             /\ memo' = stamped[2]
             /\ last' = Rec("detail", ct, id, <<>>, "nofile", "200", 0, 0)
             /\ UNCHANGED <<db, ad_clicks, users, session, cache, nextId, pc, now, args>>

\* case folding of the letters the requests use
Lower(c) == CASE c = "A" -> "a" [] c = "B" -> "b" [] OTHER -> c
RECURSIVE LowerAll(_)
LowerAll(str) == IF str = <<>> THEN <<>> ELSE <<Lower(Head(str))>> \o LowerAll(Tail(str))

\* {'$regex': q, '$options': 'i'} for a q without metacharacters
Contains(str, q) ==
    \E i \in 1..(Len(str) - Len(q) + 1) :
        LowerAll(SubSeq(str, i, i + Len(q) - 1)) = LowerAll(q)
RegexMatch(doc, k, q) == Has(doc, k) /\ IsStr(doc[k]) /\ Contains(doc[k].v, q)

\* request.args of filter_content: an empty string is a parameter not given
NoFilter == [location |-> <<>>, price |-> <<>>, date |-> <<>>, job_type |-> <<>>,
             experience |-> <<>>]
Equals(doc, k, x) == x = <<>> \/ (Has(doc, k) /\ doc[k] = StrV(x))
Since(date) ==
    CASE date = <<"24h">> -> 86400 [] date = <<"week">> -> 7 * 86400
      [] date = <<"month">> -> 30 * 86400 [] OTHER -> 0
\* the query of lines 833-855
FilterMatch(doc, f, clock) ==
    /\ f.location = <<>> \/ RegexMatch(doc, "location", f.location)
    /\ Equals(doc, "price", f.price)
    /\ Since(f.date) = 0
         \/ (Has(doc, "posted_at") /\ doc["posted_at"].t = "date"
             /\ doc["posted_at"].v >= clock - Since(f.date))
    /\ Equals(doc, "job_type", f.job_type)
    /\ Equals(doc, "required_experience", f.experience)

RECURSIVE MapIdStr(_)
MapIdStr(items) ==
    IF items = <<>> THEN <<>>
    ELSE <<With(Head(items), "_id", OidStr(Head(items)["_id"]))>> \o MapIdStr(Tail(items))

\* filter_content (lines 819-871)
Filter(ct, f, page) ==
    IF ct \notin ListingTypes THEN Answer("filter", ct, page, "400", NoResponse)
    ELSE LET found == SortDesc({x \in db[ct] : FilterMatch(x, f, now)})
             results == MapExclude(SkipLimit(found, (page - 1) * ITEMS_PER_PAGE, ITEMS_PER_PAGE),
                                   {"admin_id"})
             stamped == StampAll(MapIdStr(results), memo, now)
         IN  /\ resp' = [items |-> stamped[1]]
             /\ memo' = stamped[2]
             /\ last' = Rec("filter", ct, page, <<>>, "nofile", "200", 0, 0)
             /\ UNCHANGED <<db, ad_clicks, users, session, cache, nextId, pc, now, args>>

\* the words of a string, separated by spaces
RECURSIVE WordsFrom(_, _)
WordsFrom(str, cur) ==
    IF str = <<>> THEN (IF cur = <<>> THEN {} ELSE {cur})
    ELSE IF IsSpace(Head(str)) THEN (IF cur = <<>> THEN {} ELSE {cur}) \cup WordsFrom(Tail(str), <<>>)
    ELSE WordsFrom(Tail(str), Append(cur, Lower(Head(str))))
Words(str) == WordsFrom(str, <<>>)

\* the text index of each collection (lines 73-79)
TextFields(ct) ==
    CASE ct = "jobs" -> {"company_name", "role", "description"}
      [] ct = "courses" -> {"name", "instructor"}
      [] OTHER -> {"name", "organizer"}
\* the fields of the regex fallback (lines 900-906, 925-930, 949-954, 973-978)
RegexFields(ct) ==
    CASE ct = "jobs" -> {"company_name", "role", "job_type"}
      [] ct = "courses" -> {"name", "instructor"}
      [] OTHER -> {"name", "organizer"}
\* the 'type' each result is tagged with
TypeTag(ct) ==
    CASE ct = "jobs" -> "job" [] ct = "workshops" -> "workshop"
      [] ct = "courses" -> "course" [] OTHER -> "hackathon"

\* {'$text': {'$search': q}}: a word of q is a word of an indexed field
TextMatch(doc, ct, q) ==
    \E k \in TextFields(ct) : Has(doc, k) /\ IsStr(doc[k]) /\ Words(doc[k].v) \cap Words(q) # {}

RECURSIVE MapTag(_, _)
MapTag(items, tag) ==
    IF items = <<>> THEN <<>>
    ELSE <<With(With(Head(items), "_id", OidStr(Head(items)["_id"])), "type", StrV(<<tag>>))>>
         \o MapTag(Tail(items), tag)

\* {'score': {'$meta': 'textScore'}}: every result carries its score
RECURSIVE MapScore(_)
MapScore(items) ==
    IF items = <<>> THEN <<>>
    ELSE <<With(Head(items), "score", IntV(1))>> \o MapScore(Tail(items))

\* one try/except block of search: the text query, or the regex query when the
\* text query raised
SearchIn(d, ct, q, raised) ==
    IF ~raised
    THEN MapTag(MapExclude(Limit(MapScore(Natural({x \in d[ct] : TextMatch(x, ct, q)})), 5),
                           {"admin_id"}), TypeTag(ct))
    ELSE MapTag(MapExclude(Limit(Natural({x \in d[ct] :
                                     \E k \in RegexFields(ct) : RegexMatch(x, k, q)}), 5),
                           {"admin_id"}), TypeTag(ct))

\* search (lines 873-985); raised is the set of collections whose text query failed
Search(q, raised) ==
    IF Strip(q) = <<>> THEN Answer("search", "", 0, "200", NoResponse)
    ELSE Answer("search", "", 0, "200",
                [items |-> SearchIn(db, "jobs", Strip(q), "jobs" \in raised)
                           \o SearchIn(db, "workshops", Strip(q), "workshops" \in raised)
                           \o SearchIn(db, "courses", Strip(q), "courses" \in raised)
                           \o SearchIn(db, "hackathons", Strip(q), "hackathons" \in raised)])

\* Public reads: the admin creates, edits and deletes content of several types,
\* promoted or not, and visitors read every public page
JobReadForms ==
    Forms(<< <<"company_name", {<<"A", " ", "b">>}>>,
             <<"job_type", {<<"a">>}>>,
             <<"promote_as_ad", {ON}>> >>)
SiteReadForms == Forms(<< <<"is_project", {ON}>> >>)
ReadForms(ct) == IF ct = "jobs" THEN JobReadForms ELSE SiteReadForms
ReadTypes == {"jobs", "websites", "roadmaps"}
Queries == {<<"a">>, <<"b", " ">>}
Filters == {NoFilter, [NoFilter EXCEPT !.job_type = <<"a">>, !.date = <<"week">>],
            [NoFilter EXCEPT !.location = <<"a">>]}

NextRead ==
    \/ \E c \in Credentials : Login(c[1], c[2])
    \/ \E ct \in ReadTypes : \E form \in ReadForms(ct) : AddContent(ct, form, "nofile")
    \/ \E ct \in ReadTypes : \E form \in ReadForms(ct) :
          \E id \in ItemIds(ct) : EditContent(ct, id, form, "nofile")
    \/ \E ct \in ReadTypes : \E id \in ItemIds(ct) : DeleteContent(ct, id)
    \/ Listing("jobs", 1)
    \/ Roadmaps
    \/ Websites
    \/ OurProjects
    \/ \E ct \in {"job", "jobs"}, id \in Ids : Detail(ct, id)
    \/ \E ct \in {"jobs", "websites"}, f \in Filters : Filter(ct, f, 1)
    \/ \E q \in Queries, raised \in {{}, ListingTypes} : Search(q, raised)
    \/ GetAds

SpecRead == Init /\ [][NextRead]_vars

---------------------------------------------------------------------------
(* Registration and the guarded pages *)

LocalChars == {"a", "b", "A", "."}
DomainChars == {"a", "b", "A", "."}
Alpha == {"a", "b", "A"}
\* validate_email (lines 146-149): local@domain.tld, the tld of two letters or more
validate_email(email) ==
    \E i \in 2..Len(email), j \in 3..Len(email) :
        /\ email[i] = "@" /\ email[j] = "." /\ i + 1 < j /\ Len(email) - j >= 2
        /\ \A k \in 1..(i - 1) : email[k] \in LocalChars
        /\ \A k \in (i + 1)..(j - 1) : email[k] \in DomainChars
        /\ \A k \in (j + 1)..Len(email) : email[k] \in Alpha

MinPasswordLen == 6

\* register, POST (lines 236-284)
Register(form) ==
    /\ UNCHANGED <<db, ad_clicks, cache, nextId, pc, resp, now, memo, args>>
    /\ IF LoggedIn
       THEN /\ last' = Rec("register", "", 0, <<>>, "nofile", "already", 0, 0)
            /\ UNCHANGED <<users, session>>
       ELSE LET name == sanitize_input(Strip(form.name))
                email == sanitize_input(LowerAll(Strip(form.email)))
                college == sanitize_input(Strip(form.college))
                phone == sanitize_input(Strip(form.phone))
                oid == OidV(Cardinality(users) + 1)
            IN  IF name = <<>> \/ email = <<>> \/ form.password = <<>> \/ college = <<>>
                   \/ ~validate_email(email)
                   \/ Len(form.password) < MinPasswordLen
                   \/ \E u \in users : u.email = email
                THEN /\ last' = Rec("register", "", 0, <<>>, "nofile", "rejected", 0, 0)
                     /\ UNCHANGED <<users, session>>
                ELSE /\ users' = users \cup
                            {("_id" :> oid) @@
                             [name |-> name, email |-> email,
                              password |-> generate_password_hash(form.password),
                              college |-> college, phone |-> phone,
                              created_at |-> Date, profile_picture |-> Null]}
                     /\ session' = [user_id |-> OidStr(oid).v, is_admin |-> FALSE,
                                    username |-> name]
                     /\ last' = Rec("register", "", 0, <<>>, "nofile", "user", 0, 0)

\* redirect to the login page: admin_required (lines 107-114)
AdminRedirect(op, ct, id) ==
    /\ resp' = NoResponse
    /\ last' = Rec(op, ct, id, <<>>, "nofile", "login", 0, 0)
    /\ UNCHANGED <<db, ad_clicks, users, session, cache, nextId, pc, now, memo, args>>

\* admin_content (lines 339-365)
AdminContent(ct, page) ==
    IF ~IsAdmin THEN AdminRedirect("admin_content", ct, page)
    ELSE IF InvalidType(ct) THEN Answer("admin_content", ct, page, "invalid", NoResponse)
    ELSE Answer("admin_content", ct, page, "200",
                [items |-> SkipLimit(SortDesc(db[ct]), (page - 1) * ITEMS_PER_PAGE, ITEMS_PER_PAGE),
                 pagination |-> get_pagination_data(page, Cardinality(db[ct]))])

\* admin_users (lines 323-337)
AdminUsers(page) ==
    IF ~IsAdmin THEN AdminRedirect("admin_users", "", page)
    ELSE Answer("admin_users", "", page, "200",
                [items |-> MapExclude(SkipLimit(SortDesc(users), (page - 1) * ITEMS_PER_PAGE,
                                                 ITEMS_PER_PAGE), {"password"}),
                 pagination |-> get_pagination_data(page, Cardinality(users))])

\* the statistics of admin_dashboard (lines 309-320)
Stats ==
    [total_users |-> Cardinality(users),
     total_jobs |-> Cardinality(db["jobs"]),
     total_workshops |-> Cardinality(db["workshops"]),
     total_courses |-> Cardinality(db["courses"]),
     total_hackathons |-> Cardinality(db["hackathons"]),
     total_roadmaps |-> Cardinality(db["roadmaps"]),
     total_websites |-> Cardinality(db["websites"]),
     total_ads |-> Cardinality(db["ads"]),
     active_ads |-> Cardinality({a \in db["ads"] : Has(a, "active") /\ a["active"] = BoolV(TRUE)}),
     total_ad_clicks |-> Len(ad_clicks)]

\* the key cache.cached gives the view
DashboardKey == "view//admin/dashboard"

\* admin_dashboard (lines 304-321): the guard first, then the cached view
AdminDashboard ==
    IF ~IsAdmin THEN AdminRedirect("admin_dashboard", "", 0)
    ELSE LET val == IF CacheHit(cache, DashboardKey, 0) # {}
                    THEN (CHOOSE e \in CacheHit(cache, DashboardKey, 0) : TRUE).val
                    ELSE Stats
         IN  /\ cache' = CacheStore(cache, DashboardKey, 0, val)
             /\ resp' = [items |-> <<>>, stats |-> val]
             /\ last' = Rec("admin_dashboard", "", 0, <<>>, "nofile", "200", 0, 0)
             /\ UNCHANGED <<db, ad_clicks, users, session, nextId, pc, now, memo, args>>

\* user_dashboard (lines 293-301): ObjectId('admin') raises, the admin gets a 500
UserDashboard ==
    IF ~LoggedIn THEN LoginRedirect("user_dashboard", "", 0)
    ELSE IF session["user_id"] = AdminId THEN Answer("user_dashboard", "", 0, "500", NoResponse)
    ELSE Answer("user_dashboard", "", 0, "200",
                [items |-> MapExclude(Natural({u \in users : OidStr(u["_id"]).v = session["user_id"]}),
                                      {"password"})])

\* apply_content (lines 712-730)
Apply(ct, id) ==
    IF ~LoggedIn THEN LoginRedirect("apply", ct, id)
    ELSE IF ct \notin DetailTypes THEN Answer("apply", ct, id, "400", NoResponse)
    ELSE IF FindId(db[CollectionOf(ct)], id) = {} THEN Answer("apply", ct, id, "404", NoResponse)
    ELSE Answer("apply", ct, id, "200",
                [items |-> <<>>,
                 redirect_url |-> GetOr(CHOOSE x \in FindId(db[CollectionOf(ct)], id) : TRUE,
                                        "official_link", StrV(HASH))])

\* Sessions and guards: visitors register, log in and out, and request every
\* guarded page, as nobody, as a user and as the admin
GoodPassword == <<"s", "e", "c", "r", "e", "t">>
RegisterForms ==
    [name : {<<"A">>, <<" ">>}, email : {<<"A", "@", "b", ".", "a", "a">>, <<"a", "d", "m", "i", "n">>},
     password : {GoodPassword, <<"x">>}, college : {<<"b">>}, phone : {<<>>}]
AuthCredentials ==
    Credentials \cup {<<<<"a", "@", "b", ".", "a", "a">>, GoodPassword>>,
                      <<<<"a", "@", "b", ".", "a", "a">>, ADMIN_PASSWORD>>}

NextAuth ==
    \/ \E c \in AuthCredentials : Login(c[1], c[2])
    \/ \E form \in RegisterForms : Register(form)
    \/ Logout
    \/ \E form \in LinkForms : AddContent("jobs", form, "nofile")
    \/ \E id \in Ids, form \in LinkForms : EditContent("jobs", id, form, "nofile")
    \/ \E id \in Ids : DeleteContent("jobs", id)
    \/ AdminContent("jobs", 1)
    \/ AdminUsers(1)
    \/ AdminDashboard
    \/ UserDashboard
    \/ Roadmaps
    \/ \E id \in Ids : Detail("job", id)
    \/ \E id \in Ids : Apply("job", id)

SpecAuth == Init /\ [][NextAuth]_vars

---------------------------------------------------------------------------
(* Promotion on create: which fields of the content the ad is derived from *)

Repeat(c, n) == [i \in 1..n |-> c]

\* texts one character longer than the slice of line 417 keeps
LongRole == Repeat("r", AddDescLen + 1)
LongDescription == Repeat("d", AddDescLen + 1)

PromotedForms ==
    {f \in Forms(<< <<"company_name", {<<"c">>}>>,
                    <<"name", {<<"n">>}>>,
                    <<"title", {<<"t">>}>>,
                    <<"role", {<<"r">>, LongRole}>>,
                    <<"description", {<<"d">>, LongDescription}>>,
                    <<"official_link", {<<"l">>, <<" ">>}>>,
                    <<"promote_as_ad", {ON}>> >>) : PromoteAsAd(f)}

NextAd ==
    \/ \E c \in Credentials : Login(c[1], c[2])
    \/ \E form \in PromotedForms : AddContent("jobs", form, "nofile")
    \/ \E id \in Ids : DeleteContent("jobs", id)

SpecAd == Init /\ [][NextAd]_vars

---------------------------------------------------------------------------
(* A listing read and an admin write served by two workers: every database
   and cache operation is a step of its own, and the steps interleave *)

\* a worker inside a request: where it is, and what it has read so far
Working(step, ct, id, form, val) ==
    [Idle EXCEPT !.step = step, !.ct = ct, !.id = id, !.form = form] @@ [val |-> val]

\* cache.memoize, line 577: the lookup; a hit is the response
ListLookup(p, ct, page) ==
    /\ At(p, "idle")
    /\ IF CacheHit(cache, ct, page) # {}
       THEN LET val == get_cached_content(cache, db, ct, page)
                stamped == StampAll(val.items, memo, now)
            IN  /\ memo' = stamped[2]
                /\ resp' = [items |-> stamped[1],
                            pagination |-> get_pagination_data(page, val.total)]
                /\ last' = Rec("listing", ct, page, <<>>, "nofile", "200", 0, 0)
                /\ UNCHANGED pc
       ELSE /\ pc' = [pc EXCEPT ![p] = Working("list_read", ct, page, <<>>, <<>>)]
            /\ UNCHANGED <<memo, resp, last>>
    /\ UNCHANGED <<db, ad_clicks, users, session, cache, nextId, now, args>>

\* lines 594-599: the miss reads the database
ListRead(p) ==
    /\ At(p, "list_read")
    /\ pc' = [pc EXCEPT ![p] = Working("list_store", pc[p].ct, pc[p].id, <<>>,
                                       get_cached_content_body(db, pc[p].ct, pc[p].id))]
    /\ UNCHANGED <<db, ad_clicks, users, session, cache, nextId, last, resp, now, memo, args>>

\* cache.memoize stores what was read; lines 610-614 build the response
ListStore(p) ==
    /\ At(p, "list_store")
    /\ LET val == pc[p].val
           stamped == StampAll(val.items, memo, now)
       IN  /\ cache' = CacheStore(cache, pc[p].ct, pc[p].id, val)
           /\ memo' = stamped[2]
           /\ resp' = [items |-> stamped[1],
                       pagination |-> get_pagination_data(pc[p].id, val.total)]
           /\ last' = Rec("listing", pc[p].ct, pc[p].id, <<>>, "nofile", "200", 0, 0)
    /\ pc' = [pc EXCEPT ![p] = Idle]
    /\ UNCHANGED <<db, ad_clicks, users, session, nextId, now, args>>

\* admin_add_content up to insert_one, line 412
AddBegin(p, ct, form) ==
    /\ At(p, "idle")
    /\ IsAdmin /\ ~InvalidType(ct)
    /\ nextId <= MaxIds
    /\ db' = AddInsert(db, ct, AddData(form, "nofile", session["user_id"]), nextId)
    /\ nextId' = nextId + 1
    /\ pc' = [pc EXCEPT ![p] = Working(IF PromoteAsAd(form) THEN "add_promote" ELSE "add_clear",
                                       ct, nextId, form, <<>>)]
    /\ UNCHANGED <<ad_clicks, users, session, cache, last, resp, now, memo, args>>

\* lines 414-428: the ad of a promoted item
AddPromoteStep(p) ==
    /\ At(p, "add_promote")
    /\ IsAdmin
    /\ nextId <= MaxConcIds
    /\ db' = [db EXCEPT !["ads"] =
                InsertOne(@, ToDoc(AddAdData(AddData(pc[p].form, "nofile", session["user_id"]),
                                             pc[p].ct, pc[p].id, session["user_id"])), nextId)]
    /\ nextId' = nextId + 1
    /\ pc' = [pc EXCEPT ![p] = Working("add_clear", pc[p].ct, pc[p].id, pc[p].form, nextId)]
    /\ UNCHANGED <<ad_clicks, users, session, cache, last, resp, now, memo, args>>

\* lines 430-435: the cache is cleared and the response sent
AddClear(p) ==
    /\ At(p, "add_clear")
    /\ cache' = CacheClear(cache, pc[p].ct)
    /\ last' = Rec("add", pc[p].ct, pc[p].id, pc[p].form, "nofile", "ok",
                   IF PromoteAsAd(pc[p].form) THEN pc[p].val ELSE 0, Cardinality(cache))
    /\ pc' = [pc EXCEPT ![p] = Idle]
    /\ UNCHANGED <<db, ad_clicks, users, session, nextId, resp, now, memo, args>>

\* admin_delete_content up to delete_one, line 566
DeleteBegin(p, ct, id) ==
    /\ At(p, "idle")
    /\ IsAdmin /\ ~InvalidType(ct)
    /\ db' = [db EXCEPT ![ct] = DeleteOne(@, id)]
    /\ pc' = [pc EXCEPT ![p] = Working("del_ads", ct, id, <<>>, Cardinality(AdsRef(db["ads"], id)))]
    /\ UNCHANGED <<ad_clicks, users, session, cache, nextId, last, resp, now, memo, args>>

\* line 567: the ads that refer to the item
DeleteAds(p) ==
    /\ At(p, "del_ads")
    /\ db' = [db EXCEPT !["ads"] = DeleteManyRef(@, pc[p].id)]
    /\ pc' = [pc EXCEPT ![p] = [pc[p] EXCEPT !.step = "del_clear"]]
    /\ UNCHANGED <<ad_clicks, users, session, cache, nextId, last, resp, now, memo, args>>

\* lines 569-574: the cache is cleared and the response sent
DeleteClear(p) ==
    /\ At(p, "del_clear")
    /\ cache' = CacheClear(cache, pc[p].ct)
    /\ last' = Rec("delete", pc[p].ct, pc[p].id, <<>>, "nofile", "ok", 0, pc[p].val)
    /\ pc' = [pc EXCEPT ![p] = Idle]
    /\ UNCHANGED <<db, ad_clicks, users, session, nextId, resp, now, memo, args>>

\* the steps of a write that are still to come for a worker
WriteSteps == {"add_promote", "add_clear", "del_ads", "del_clear"}
Writing == \E p \in Procs : pc[p].step \in WriteSteps

RaceTypes == {"jobs"}

NextRace ==
    \/ \E c \in Credentials : Login(c[1], c[2])
    \/ \E p \in Procs, ct \in RaceTypes : ListLookup(p, ct, 1)
    \/ \E p \in Procs : ListRead(p)
    \/ \E p \in Procs : ListStore(p)
    \/ \E p \in Procs, ct \in RaceTypes, form \in LinkForms : AddBegin(p, ct, form)
    \/ \E p \in Procs : AddPromoteStep(p)
    \/ \E p \in Procs : AddClear(p)
    \/ \E p \in Procs, ct \in RaceTypes : \E id \in ItemIds(ct) : DeleteBegin(p, ct, id)
    \/ \E p \in Procs : DeleteAds(p)
    \/ \E p \in Procs : DeleteClear(p)

SpecRace == Init /\ [][NextRace]_vars

---------------------------------------------------------------------------
(* Properties *)

TypeOK == nextId \in 1..(MaxConcIds + 1)

Served(op) == last.op = op /\ last.status = "ok"
ZeroCounters(a) ==
    /\ Has(a, "clicks") /\ Counter(a, "clicks") = 0
    /\ Has(a, "impressions") /\ Counter(a, "impressions") = 0

\* C2, as stated: a create with promote_as_ad unset adds no ad document; with it
\* set it adds exactly one, which references the new item and has zero counters.
C2_CreateAddsOnlyThePromotedAd ==
    [][(last'.op = "add" /\ last'.status = "ok") =>
        LET added == db'["ads"] \ db["ads"] IN
        /\ db["ads"] \subseteq db'["ads"]
        /\ IF PromoteAsAd(last'.form)
           THEN \E a \in added : /\ added = {a}
                                 /\ AdsRef({a}, last'.id) = {a}
                                 /\ ZeroCounters(a)
           ELSE added = {}]_vars

\* C2, amended: beside the created item itself (which is an ad document when the
\* content type is ads), a create adds no ad document when promote_as_ad is unset
\* and exactly one when it is set: the ad that references the new item, with
\* clicks = 0 and impressions = 0.
C2_CreateAddsPromotedAdBesideItem ==
    [][(last'.op = "add" /\ last'.status = "ok") =>
        LET added == db'["ads"] \ db["ads"]
            item == IF last'.ct = "ads" THEN FindId(db'["ads"], last'.id) ELSE {}
            derived == added \ item
        IN  /\ db["ads"] \subseteq db'["ads"]
            /\ Cardinality(FindId(db'[last'.ct], last'.id)) = 1
            /\ item \subseteq added
            /\ IF PromoteAsAd(last'.form)
               THEN \E a \in derived : /\ derived = {a}
                                       /\ AdsRef({a}, last'.id) = {a}
                                       /\ a["_id"].v = last'.adId
                                       /\ ZeroCounters(a)
               ELSE derived = {}]_vars

\* C1: at most one ad document has a given content_reference.
C1_OneAdPerReference ==
    \A id \in 1..MaxConcIds : Cardinality(AdsRef(db["ads"], id)) <= 1

C2_Witness ==
    /\ Served("add") /\ PromoteAsAd(last.form)
    /\ Cardinality(AdsRef(db["ads"], last.id)) = 1

\* C3: after an edit of an existing content item of any valid content type with
\* the promote flag cleared, no ad references that item.
C3_EditClearedLeavesNoAd ==
    (/\ Served("edit") /\ ~PromoteAsAd(last.form)
     /\ FindId(db[last.ct], last.id) # {})
    => AdsRef(db["ads"], last.id) = {}

\* C4: after an edit of an existing content item of any valid content type with
\* the promote flag set, exactly one ad references the item: the ad that
\* referenced it before, counters unchanged, or else a new ad with zero counters.
C4_EditPromotedKeepsOneAd ==
    [][(/\ last'.op = "edit" /\ last'.status = "ok" /\ PromoteAsAd(last'.form)
        /\ FindId(db[last'.ct], last'.id) # {})
       => LET before == AdsRef(db["ads"], last'.id)
              after == AdsRef(db'["ads"], last'.id)
          IN  /\ Cardinality(after) = 1
              /\ \A b \in after :
                    IF before # {}
                    THEN \E a \in before :
                            /\ a["_id"] = b["_id"]
                            /\ Counter(a, "clicks") = Counter(b, "clicks")
                            /\ Counter(a, "impressions") = Counter(b, "impressions")
                    ELSE ZeroCounters(b)]_vars

\* C5: after delete(content_type, id) no ad references id and the collection of
\* content_type holds no item with that id.
C5_DeleteCascades ==
    Served("delete") =>
        /\ AdsRef(db["ads"], last.id) = {}
        /\ FindId(db[last.ct], last.id) = {}

C5_Witness == Served("delete") /\ last.pre > 0 /\ last.ct # "ads"

\* C6: a click on an existing ad adds 1 to its clicks and appends one click event
\* with that ad id; a malformed id answers 400 and an unknown id 404, and neither
\* changes an ad or the click log.
C6_ClickCountsAndLogs ==
    [][last'.op = "click" =>
        LET id == last'.id IN
        IF id # 0 /\ FindId(db["ads"], id) # {}
        THEN /\ last'.status = "200"
             /\ CounterOf(db'["ads"], id, "clicks") = CounterOf(db["ads"], id, "clicks") + 1
             /\ Len(ad_clicks') = Len(ad_clicks) + 1
             /\ SubSeq(ad_clicks', 1, Len(ad_clicks)) = ad_clicks
             /\ ad_clicks'[Len(ad_clicks')].ad_id = id
        ELSE /\ last'.status = (IF id = 0 THEN "400" ELSE "404")
             /\ db' = db
             /\ ad_clicks' = ad_clicks]_vars

C6_Witness ==
    /\ last.op = "click" /\ last.status = "200"
    /\ Len(ad_clicks) > 0 /\ ad_clicks[Len(ad_clicks)].ad_id = last.id
    /\ CounterOf(db["ads"], last.id, "clicks") = last.pre + 1

\* C7: an impression of an existing ad adds 1 to its impressions and changes
\* nothing else (its clicks, the other ads, the click log); a malformed id answers
\* 400 and an unknown id 404, and neither changes anything.
C7_ImpressionCountsOnly ==
    [][last'.op = "impression" =>
        LET id == last'.id IN
        IF id # 0 /\ FindId(db["ads"], id) # {}
        THEN /\ last'.status = "200"
             /\ CounterOf(db'["ads"], id, "impressions")
                    = CounterOf(db["ads"], id, "impressions") + 1
             /\ CounterOf(db'["ads"], id, "clicks") = CounterOf(db["ads"], id, "clicks")
             /\ {a \in db'["ads"] : a["_id"].v # id} = {a \in db["ads"] : a["_id"].v # id}
             /\ \A c \in ContentTypes \ {"ads"} : db'[c] = db[c]
             /\ ad_clicks' = ad_clicks
        ELSE /\ last'.status = (IF id = 0 THEN "400" ELSE "404")
             /\ db' = db
             /\ ad_clicks' = ad_clicks]_vars

C7_Witness ==
    /\ last.op = "impression" /\ last.status = "200"
    /\ Cardinality(db["ads"]) > 1
    /\ CounterOf(db["ads"], last.id, "clicks") > 0
    /\ CounterOf(db["ads"], last.id, "impressions") = last.pre + 1

\* the item the last create or edit wrote
LastItems == FindId(db[last.ct], last.id)
Flags == {"certification", "active", "is_project"}
SubmittedOn(form, k) == FormHas(form, k) /\ FormGet(form, k) = ON
IsBoolean(d, k, b) == Has(d, k) /\ d[k].t = "bool" /\ d[k].v = b
IsNA(d, k) == Has(d, k) /\ d[k].t = "str" /\ d[k].v = NA
Blank(s) == Strip(s) = <<>>
HasAngle(s) == \E i \in 1..Len(s) : s[i] \in {"<", ">"}
Clean(x) ==
    CASE x.t = "str" -> ~HasAngle(x.v)
      [] x.t = "list" -> \A i \in 1..Len(x.v) : ~HasAngle(x.v[i])
      [] OTHER -> TRUE
AllClean == \A c \in ContentTypes : \A d \in db[c] : \A k \in DOMAIN d : Clean(d[k])

\* C8: after an update the three flags are stored as booleans, true exactly when
\* the form submitted "on"; after a create every flag the form submitted is
\* stored as a boolean, true exactly when it was "on", so that a website created
\* with is_project = "on" is on the our-projects page.
C8_FlagsFollowOnConvention ==
    /\ Served("edit") =>
          \A d \in LastItems : \A k \in Flags : IsBoolean(d, k, SubmittedOn(last.form, k))
    /\ Served("add") =>
          \A d \in LastItems : \A k \in Flags :
              FormHas(last.form, k) => IsBoolean(d, k, SubmittedOn(last.form, k))
    /\ (Served("add") /\ last.ct = "websites" /\ SubmittedOn(last.form, "is_project"))
          => \E w \in our_projects : w["_id"].v = last.id

\* C9, as stated: no stored string contains '<' or '>', and every submitted
\* field whose value was empty or blank is stored as "N/A".
C9_CleanAndEveryBlankIsNA ==
    /\ AllClean
    /\ (Served("add") \/ Served("edit")) =>
          \A d \in LastItems : \A i \in 1..Len(last.form) :
              Blank(last.form[i][2]) => IsNA(d, last.form[i][1])

\* the fields a handler does not store as the string it sanitised
NotStoredAsText(op) ==
    IF op = "add" THEN {"certification", "active"} ELSE Flags \cup {"promote_as_ad"}

\* C9, amended: no stored string contains '<' or '>', and every submitted field
\* whose value was empty or blank is stored as "N/A", except the fields the
\* handler converts or drops: certification and active (on update also
\* is_project) become booleans, and an update does not store promote_as_ad.
C9_CleanAndBlankTextIsNA ==
    /\ AllClean
    /\ (Served("add") \/ Served("edit")) =>
          \A d \in LastItems : \A i \in 1..Len(last.form) :
              (Blank(last.form[i][2]) /\ last.form[i][1] \notin NotStoredAsText(last.op))
                  => IsNA(d, last.form[i][1])

C9_Witness ==
    /\ Served("edit")
    /\ \E d \in LastItems :
          /\ \E i \in 1..Len(last.form) :
                /\ Blank(last.form[i][2]) /\ last.form[i][1] \notin NotStoredAsText("edit")
                /\ IsNA(d, last.form[i][1])
          /\ \E i \in 1..Len(last.form) :
                /\ HasAngle(last.form[i][2])
                /\ Has(d, last.form[i][1]) /\ Clean(d[last.form[i][1]])

\* C10: when the image upload of a create or update fails, the request still
\* writes the item, and the image field is left unset: a created document has no
\* image field, an updated one keeps the image it had.
C10_FailedUploadLeavesImageUnset ==
    [][(last'.op \in {"add", "edit"} /\ last'.status = "ok" /\ last'.upload = "fail") =>
        IF last'.op = "add"
        THEN \E d \in FindId(db'[last'.ct], last'.id) : ~Has(d, "image")
        ELSE \A old \in FindId(db[last'.ct], last'.id) :
                \E new \in FindId(db'[last'.ct], last'.id) :
                    /\ Has(new, "updated_at")
                    /\ Has(new, "image") <=> Has(old, "image")
                    /\ Has(old, "image") => new["image"] = old["image"]]_vars

\* the content types the specification enumerates
EnumeratedTypes == {"jobs", "workshops", "courses", "hackathons", "roadmaps", "websites", "ads"}
AdminWrites == {"add", "edit", "delete"}

\* C11: an admin create, update or delete is accepted exactly when its content
\* type is one of the seven enumerated ones; for any other type the request
\* fails (400, or a redirect with a flash) and leaves every collection, every ad
\* and the cache as they were.
C11_OnlyEnumeratedTypesAccepted ==
    [][(last'.op \in AdminWrites /\ last'.status # "login") =>
        /\ last'.status = "ok" <=> last'.ct \in EnumeratedTypes
        /\ last'.ct \notin EnumeratedTypes =>
              /\ last'.status \in {"400", "invalid"}
              /\ db' = db /\ cache' = cache /\ ad_clicks' = ad_clicks]_vars

\* an unknown type was refused while the collections and the cache held data
C11_Witness ==
    /\ last.op \in AdminWrites /\ last.status \in {"400", "invalid"}
    /\ last.ct \in UnknownTypes
    /\ cache # EmptyCache /\ db["jobs"] # {} /\ db["ads"] # {}


\* ceil(n / d) for n >= 0, d > 0, by its definition
Ceil(n, d) == CHOOSE q \in 0..n : q * d >= n /\ (q = 0 \/ (q - 1) * d < n)

\* C12: for every total_items >= 0 and page >= 1 the pagination metadata has
\* total_pages = ceil(total_items / 30), has_prev iff page > 1, has_next iff
\* page < total_pages, prev_page = page - 1 when has_prev and none otherwise,
\* next_page = page + 1 when has_next and none otherwise.
C12_PaginationMetadata ==
    last.op = "paginate" =>
        LET page == args[1]
            total == args[2]
        IN  /\ resp.total_pages = Ceil(total, 30)
            /\ resp.has_prev <=> page > 1
            /\ resp.has_next <=> page < Ceil(total, 30)
            /\ resp.prev_page = (IF page > 1 THEN IntV(page - 1) ELSE Null)
            /\ resp.next_page = (IF page < Ceil(total, 30) THEN IntV(page + 1) ELSE Null)

\* a last, partly filled second page
C12_Witness ==
    /\ last.op = "paginate" /\ args = <<2, 31>>
    /\ resp.total_pages = 2 /\ resp.has_prev /\ ~resp.has_next
    /\ resp.prev_page = IntV(1) /\ resp.next_page = Null


\* the string the claim gives for e elapsed seconds
Counted(n, unit) == <<ToString(n), " ", unit, IF n = 1 THEN "" ELSE "s", " ago">>
ClaimedTimeAgo(e) ==
    CASE e < 60 -> <<"Just now">>
      [] e >= 60 /\ e < 3600 -> Counted(e \div 60, "minute")
      [] e >= 3600 /\ e < 86400 -> Counted(e \div 3600, "hour")
      [] e >= 86400 /\ e < 604800 -> Counted(e \div 86400, "day")
      [] e >= 604800 /\ e < 2592000 -> Counted(e \div 604800, "week")
      [] OTHER -> Counted(e \div 2592000, "month")

\* C13: every call of time_ago returns the string for the seconds elapsed
\* between the timestamp and the instant of the call, also a later call with
\* the same timestamp after the elapsed time has crossed a bucket boundary.
C13_TimeAgoMatchesElapsed ==
    last.op = "time_ago" => resp = ClaimedTimeAgo(now - args[1])


ReadOps == {"listing", "roadmaps", "websites", "our_projects", "detail", "filter",
            "search", "get_ads"}
NoAdminId(items) == \A i \in 1..Len(items) : ~Has(items[i], "admin_id")

\* C14: no response of a public read (the paginated listing, the roadmaps,
\* websites and our-projects pages, the detail page, filter, search on the text
\* index and on the regex fallback, get_ads) carries the admin_id of a stored
\* document, whatever was created or edited before.
C14_PublicReadsHideAdminId ==
    last.op \in ReadOps =>
        /\ NoAdminId(resp.items)
        /\ (last.op = "detail" /\ last.status = "200") => NoAdminId(resp.related)

\* a search found a stored job, which carries the admin reference in the database
C14_Witness ==
    /\ last.op = "search" /\ Len(resp.items) > 0
    /\ \E d \in db["jobs"] : Has(d, "admin_id") /\ OidStr(d["_id"]) = resp.items[1]["_id"]
    /\ \E a \in db["ads"] : Has(a, "admin_id")


\* C15: when an admin create, update or delete on a valid content type
\* completes, the listing cache holds no entry for any content type or page, and
\* the paginated listing read that follows is computed from the database.
C15_WriteEmptiesListingCache ==
    [][/\ (last'.op \in AdminWrites /\ last'.status = "ok") => cache' = EmptyCache
       /\ (last.op \in AdminWrites /\ last.status = "ok" /\ last'.op = "listing") =>
             LET fresh == get_cached_content_body(db', last'.ct, last'.id)
             IN  /\ MapExclude(resp'.items, {"time_ago"}) = fresh.items
                 /\ resp'.pagination = get_pagination_data(last'.id, fresh.total)]_vars

\* a create completed while the cache held pages of both content types
C15_Witness ==
    /\ Served("add") /\ last.pre > 1 /\ last.ct = "jobs"
    /\ cache = EmptyCache


AdminOps == {"admin_content", "add", "edit", "delete", "admin_users", "admin_dashboard"}
LoginOps == {"user_dashboard", "roadmaps", "detail", "apply"}
HasUserId(sess) == "user_id" \in DOMAIN sess
HasAdminFlag(sess) == "is_admin" \in DOMAIN sess /\ sess["is_admin"] = TRUE

\* C16: an admin-guarded handler runs only when the session has a user_id and
\* is_admin = true, a login-guarded handler only when the session has a
\* user_id; otherwise the request is redirected to login and changes no stored
\* data.  A session created by user login or registration never has is_admin =
\* true, and after logout no guarded handler runs until a new login.
C16_GuardsHold ==
    [][/\ last'.op \in AdminOps =>
             (last'.status # "login" <=> (HasUserId(session) /\ HasAdminFlag(session)))
       /\ last'.op \in LoginOps => (last'.status # "login" <=> HasUserId(session))
       /\ (last'.op \in AdminOps \cup LoginOps /\ last'.status = "login") =>
             UNCHANGED <<db, ad_clicks, users, cache, session>>
       /\ (last'.op \in {"login", "register"} /\ last'.status = "user") =>
             (HasUserId(session') /\ ~HasAdminFlag(session'))
       /\ last'.op = "logout" => ~HasUserId(session')
       /\ (~HasUserId(session) /\ HasUserId(session')) => last'.op \in {"login", "register"}]_vars

\* a registered user was turned away from an admin page while content existed
C16_Witness ==
    /\ last.op \in AdminOps /\ last.status = "login"
    /\ HasUserId(session) /\ ~HasAdminFlag(session)
    /\ users # {} /\ db["jobs"] # {}


\* the ad the last create derived, and the item it was derived from
LastAds == FindId(db["ads"], last.adId)
FirstOf(d, keys, dflt) ==
    IF Has(d, keys[1]) THEN d[keys[1]]
    ELSE IF Has(d, keys[2]) THEN d[keys[2]]
    ELSE IF Len(keys) > 2 /\ Has(d, keys[3]) THEN d[keys[3]]
    ELSE dflt

\* C17: the ad inserted by a create with promote-as-ad set has as description
\* the content's role when it has one and otherwise its description, in either
\* case cut to at most 100 characters; as title the first of company_name,
\* name, title the content has; as link the content's official_link, or "#".
C17_PromotedAdFields ==
    (Served("add") /\ last.adId # 0) =>
        \A d \in LastItems : \E a \in LastAds :
            /\ (Has(d, "role") \/ Has(d, "description")) =>
                  a["description"] = SliceV(FirstOf(d, <<"role", "description">>, Null), 100)
            /\ (Has(d, "company_name") \/ Has(d, "name") \/ Has(d, "title")) =>
                  a["title"] = FirstOf(d, <<"company_name", "name", "title">>, Null)
            /\ a["link"] = FirstOf(d, <<"official_link", "official_link">>, StrV(HASH))


\* the content item an ad refers to, in the collection its content_type names
Referent(d, a) ==
    IF a["content_type"].v[1] \in ContentTypes
    THEN FindId(d[a["content_type"].v[1]], a["content_reference"].v)
    ELSE {}

\* C18: after any sequence of admin creates, edits and deletes, every ad that
\* has a content_reference refers to a content item that exists in the
\* collection its content_type names.
C18_AdsReferToExistingContent ==
    \A a \in db["ads"] : Has(a, "content_reference") => Referent(db, a) # {}

\* C19: once an admin write has completed (database written, cache cleared) and
\* no other write is under way, a listing read returns what the database holds:
\* every entry left in the listing cache is the current content of its page
C19_NoStaleEntryAfterWrite ==
    ~Writing => \A e \in cache : e.val = get_cached_content_body(db, e.ct, e.page)

====
